---- MODULE Spec2Model ----
(***************************************************************************)
(* Model of the post controller of the blog API (src/server.js, lines      *)
(* 52-497) over a MongoDB collection of posts accessed through Mongoose.   *)
(*                                                                         *)
(* Every handler is an async function; it is cut at its awaits.  A request *)
(* occupies a slot: the first step runs the handler up to and including    *)
(* its first store read (and everything synchronous after it), the second  *)
(* step is the store write it awaits, followed by the response.            *)
(*                                                                         *)
(* Store writes follow Mongoose: document.save() sends only the modified   *)
(* paths (views: $set of the local value; array push: $push; array pull:   *)
(* $pull by _id; assignment of a whole array: $set guarded by the version  *)
(* key __v), it never inserts, and it fails when no document matches.      *)
(***************************************************************************)
EXTENDS Integers, Sequences, FiniteSets, TLC

\* ---------------------------------------------------------------- bounds
MaxRequests == 4      \* requests started in one run
MaxListed == 3        \* posts in the collection the listings are run on

\* ------------------------------------------------------ program constants
TitleMin == 5
TitleMax == 100
ContentMin == 50
DefaultPage == 1
DefaultLimit == 10

\* ------------------------------------------------------------ identities
Anon == "anon"
Users == {"ann", "bob", "root"}
Authors == {"ann"}            \* the users who write posts
Members == {"ann", "bob"}     \* the users who like and comment
Requesters == Users \cup {Anon}
Role(u) == IF u = "root" THEN "admin" ELSE "user"

Slots == {"r1", "r2"}
PostIds == {1}         \* the ids Post.create hands out, in this order
Statuses == {"draft", "published", "archived"}

NoPost == [none |-> TRUE]
NoList == [none |-> TRUE]     \* a response that carries no listing
NoPage == [none |-> TRUE]     \* a pagination entry that is not in the response
NoBody == [fields |-> {}]

\* ------------------------------------------------------------------ text
Space == " "
Hi == <<"h", "i">>
\* The comment texts sent: none or empty, whitespace only, padded.
Texts == {<< >>, <<Space>>, <<Space>> \o Hi \o <<Space>>}

RECURSIVE TrimLeft(_)
TrimLeft(t) == IF t # << >> /\ Head(t) = Space THEN TrimLeft(Tail(t)) ELSE t

RECURSIVE TrimRight(_)
TrimRight(t) ==
  IF t # << >> /\ t[Len(t)] = Space THEN TrimRight(SubSeq(t, 1, Len(t) - 1)) ELSE t

\* A trim that leaves the text as it is.
NoTrim(t) == t

Trim(t) == TrimRight(TrimLeft(t))

GoodTitle == <<"h", "e", "l", "l", "o">>
BadTitle == <<"h", "i">>
GoodContent == [i \in 1..ContentMin |-> "x"]

\* -------------------------------------------------------- request bodies
\* A body is the set of the fields it carries and their values.
Body(fields, title, status, author, views, likes, comments, slug) ==
  [fields |-> fields, title |-> title, content |-> GoodContent, status |-> status,
   author |-> author, views |-> views, likes |-> likes, comments |-> comments,
   slug |-> slug]

Slug(title, n) == [base |-> title, n |-> n]

PlainBody(fields, title, status) ==
  Body(fields, title, status, "ann", 0, << >>, << >>, Slug(GoodTitle, 0))

CreateBodies ==
  { PlainBody({"title", "content"}, GoodTitle, "draft"),
    PlainBody({"title", "content", "status"}, GoodTitle, "published"),
    PlainBody({"title", "content"}, BadTitle, "draft") }
  \cup { Body({"title", "content", "status", "author"}, GoodTitle, "published", u,
              0, << >>, << >>, Slug(GoodTitle, 0)) : u \in {"bob"} }

UpdateBodies ==
  { PlainBody({"title", "content", "status"}, GoodTitle, st) :
      st \in {"published", "archived"} }
  \cup { PlainBody({"title", "content"}, BadTitle, "draft"),
         Body({"title", "content", "author"}, GoodTitle, "draft", "bob",
              0, << >>, << >>, Slug(GoodTitle, 0)),
         Body({"title", "content", "views"}, GoodTitle, "draft", "ann",
              0, << >>, << >>, Slug(GoodTitle, 0)),
         Body({"title", "content", "likes"}, GoodTitle, "draft", "ann",
              0, <<"bob", "bob">>, << >>, Slug(GoodTitle, 0)),
         Body({"title", "content", "slug"}, GoodTitle, "draft", "ann",
              0, << >>, << >>, Slug(GoodTitle, 1)) }

\* A payload of updatePost that carries a comments field (an empty list).
CommentBodies ==
  { Body({"title", "content", "comments"}, GoodTitle, "draft", "ann",
         0, << >>, << >>, Slug(GoodTitle, 0)) }

\* express-validator chain of the post routes: title 5..100 characters after
\* trimming, content at least 50; the optional fields of the bodies used here
\* are always well-formed.
postValidation(body) ==
  /\ "title" \in body.fields
  /\ Len(Trim(body.title)) >= TitleMin
  /\ Len(Trim(body.title)) <= TitleMax
  /\ "content" \in body.fields
  /\ Len(Trim(body.content)) >= ContentMin

\* ----------------------------------------------------------------- state
VARIABLES
  posts,      \* the posts collection: post id -> document, or NoPost
  users,      \* the users collection: the ids of the stored users
  nextPid,    \* the next fresh post id
  nextCid,    \* the next fresh comment id
  started,    \* requests started so far
  req         \* per slot: the request in flight or the last response

vars == <<posts, users, nextPid, nextCid, started, req>>

Exists(id) == id \in PostIds /\ posts[id] # NoPost

\* A request: the handler (op), where it stands (pc), its sender, req.params
\* and req.body, the locals its later steps read (of the loaded document:
\* __v, views, likes; isLiked of line 342 as wasLiked; the new comment), and
\* the response once it is done.
IdleReq ==
  [op |-> "none", pc |-> "idle", user |-> Anon, id |-> 0, body |-> NoBody,
   v |-> 0, views |-> 0, likes |-> << >>, wasLiked |-> FALSE,
   cid |-> 0, text |-> << >>,
   status |-> 0, likesCount |-> 0, isLiked |-> FALSE, list |-> NoList,
   target |-> Anon]

\* The document Post.create stores for a body sent by u: the author is the
\* requester, the status defaults to draft, the counters start empty.
Document(u, body, slug) ==
  [author |-> u,
   status |-> IF "status" \in body.fields THEN body.status ELSE "draft",
   slug |-> slug,
   title |-> Trim(body.title),
   content |-> Trim(body.content),
   views |-> 0, likes |-> << >>, comments |-> << >>, v |-> 0]

Init ==
  /\ posts = [i \in PostIds |-> NoPost]
  /\ users = Users
  /\ nextPid = 1
  /\ nextCid = 1
  /\ started = 0
  /\ req = [s \in Slots |-> IdleReq]

\* The slots are taken in turn, so that the responses of the last two requests
\* stay on record; a request that finds the slot of its turn still in flight
\* takes the other one.
Turn == IF started % 2 = 0 THEN "r1" ELSE "r2"

\* Where a request waits for the store: the write of its handler, or, in
\* deleteUser, Post.deleteMany before it.
Waiting == {"save", "deleteMany"}

Free(s) ==
  /\ req[s].pc \notin Waiting
  /\ started < MaxRequests
  /\ s = Turn \/ req[Turn].pc \in Waiting

\* The request record at the start of handler op.
NewReq(op, u, id) == [IdleReq EXCEPT !.op = op, !.user = u, !.id = id]

\* res.status(code) / next(new ErrorResponse(..., code)) ends the request.
Respond(r, code) ==
  [r EXCEPT !.pc = "done", !.status = code, !.body = NoBody]

\* The same, the record keeping req.body.
Stop(r, code) == [r EXCEPT !.pc = "done", !.status = code]

\* The request in slot s ends with code after the store took the write that
\* makes the collection after.
Commit(s, r, after, code) ==
  /\ posts' = after
  /\ req' = [req EXCEPT ![s] = Respond(r, code)]

\* The request in slot s ends with code and the store is not written.
Refuse(s, r, code) ==
  /\ posts' = posts
  /\ req' = [req EXCEPT ![s] = Respond(r, code)]

\* ------------------------------------------------------ visibility policy
\* post.status !== "published" && (!req.user || (req.user.id !== author &&
\* req.user.role !== "admin"))  is the condition of the 404.
Hidden(post, u) ==
  /\ post.status # "published"
  /\ (u = Anon \/ (u # post.author /\ Role(u) # "admin"))

\* !req.user || req.user.id !== post.author._id.toString()
CountsView(post, u) == u = Anon \/ u # post.author

\* The owner test alone: an admin who is not the owner is refused too.
NotOwner(owner, u) == owner # u

\* post.author.toString() !== req.user.id && req.user.role !== "admin"
NotAuthorized(owner, u) == owner # u /\ Role(u) # "admin"

\* router.get("/slug/:slug", getPostBySlug) and router.get("/:id", getPost)
\* are registered before router.use(protect), and the application installs
\* no other middleware that identifies the requester: on these routes
\* req.user is never set, whoever sends the request; on the routes after
\* router.use(protect) it is the authenticated sender.
PublicRoutes == {"getPost", "getPostBySlug"}

ReqUser(op, u) == IF op \in PublicRoutes THEN Anon ELSE u

\* ---------------------------------------------------------------- lookup
findById(id) == IF id \in PostIds THEN posts[id] ELSE NoPost

SlugMatches(slug) == {i \in PostIds : posts[i] # NoPost /\ posts[i].slug = slug}

\* Post.findOne({slug}): the id of the post with that slug, 0 when there is none.
findOneBySlug(slug) ==
  IF SlugMatches(slug) = {} THEN 0 ELSE CHOOSE i \in SlugMatches(slug) : TRUE

\* ------------------------------------------------------------- createPost
TakenSlugs == {posts[i].slug : i \in {j \in PostIds : posts[j] # NoPost}}

\* The slug of a new post: its title with the first suffix not yet taken.
Slugify(title) ==
  Slug(title, CHOOSE n \in 0..Cardinality(PostIds) :
                /\ Slug(title, n) \notin TakenSlugs
                /\ \A m \in 0..(n - 1) : Slug(title, m) \in TakenSlugs)

\* Post.create(req.body) without line 241: the author the payload names, if
\* it names one, is stored.
NewPostOfPayload(u, body) ==
  [Document(u, body, Slugify(Trim(body.title))) EXCEPT
     !.author = IF "author" \in body.fields THEN body.author ELSE u]

\* req.body.author = req.user.id; Post.create(req.body)
NewPost(u, body) == Document(u, body, Slugify(Trim(body.title)))

\* The handler; the record of a request answered 201 keeps the payload that
\* was sent.
CreatePost(s, u, body) ==
  /\ Free(s)
  /\ started' = started + 1
  /\ IF ~postValidation(body)
       THEN /\ Refuse(s, NewReq("createPost", u, 0), 400)
            /\ nextPid' = nextPid
       ELSE /\ nextPid \in PostIds
            /\ posts' = [posts EXCEPT ![nextPid] = NewPost(u, body)]
            /\ req' = [req EXCEPT ![s] =
                 [Respond(NewReq("createPost", u, nextPid), 201)
                    EXCEPT !.body = body]]
            /\ nextPid' = nextPid + 1
  /\ UNCHANGED <<users, nextCid>>

\* ------------------------------------------------- getPost, getPostBySlug
\* A read that counts the view in the store before it applies the visibility
\* test.
ReadLoadCountsFirst(s, op, u, id) ==
  LET post == findById(id)
      r == NewReq(op, u, id)
      user == ReqUser(op, u)
  IN  /\ Free(s)
      /\ started' = started + 1
      /\ posts' = IF post = NoPost THEN posts
                  ELSE [posts EXCEPT ![id].views = @ + 1]
      /\ req' = [req EXCEPT ![s] =
           IF post = NoPost THEN Respond(r, 404)
           ELSE IF Hidden(post, user) THEN Respond(r, 404)
           ELSE Respond([r EXCEPT !.views = post.views + 1], 200)]
      /\ UNCHANGED <<users, nextPid, nextCid>>

\* The handler from the lookup to the await of post.save(), for the document
\* found under id (0: none found).
ReadLoad(s, op, u, id) ==
  LET post == findById(id)
      r == NewReq(op, u, id)
      user == ReqUser(op, u)
  IN  /\ Free(s)
      /\ started' = started + 1
      /\ req' = [req EXCEPT ![s] =
           IF post = NoPost THEN Respond(r, 404)
           ELSE IF Hidden(post, user) THEN Respond(r, 404)
           ELSE IF CountsView(post, user)
             THEN [r EXCEPT !.pc = "save", !.views = post.views + 1]
             ELSE Respond([r EXCEPT !.views = post.views], 200)]
      /\ UNCHANGED <<users, posts, nextPid, nextCid>>

\* post.save() with views modified: $set of the local value on the stored
\* document; no document, no write, and the save rejects.
ReadSave(s, op) ==
  LET r == req[s]
  IN  /\ r.pc = "save"
      /\ r.op = op
      /\ IF Exists(r.id)
           THEN Commit(s, r, [posts EXCEPT ![r.id].views = r.views], 200)
           ELSE Refuse(s, r, 500)
      /\ UNCHANGED <<users, nextPid, nextCid, started>>

GetPostLoad(s, u, id) == ReadLoad(s, "getPost", u, id)

GetPostSave(s) == ReadSave(s, "getPost")

GetPostBySlugLoad(s, u, slug) ==
  ReadLoad(s, "getPostBySlug", u, findOneBySlug(slug))

GetPostBySlugSave(s) == ReadSave(s, "getPostBySlug")

\* ------------------------------------------------------------- updatePost
\* findByIdAndUpdate(id, req.body): every schema path the body carries is set,
\* the others keep their stored value.
Merge(post, body) ==
  [post EXCEPT
     !.title = IF "title" \in body.fields THEN Trim(body.title) ELSE @,
     !.content = IF "content" \in body.fields THEN Trim(body.content) ELSE @,
     !.status = IF "status" \in body.fields THEN body.status ELSE @,
     !.author = IF "author" \in body.fields THEN body.author ELSE @,
     !.views = IF "views" \in body.fields THEN body.views ELSE @,
     !.likes = IF "likes" \in body.fields THEN body.likes ELSE @,
     !.comments = IF "comments" \in body.fields THEN body.comments ELSE @,
     !.slug = IF "slug" \in body.fields THEN body.slug ELSE @]

\* An updatePost that looks at validationResult(req) first, as createPost
\* does, and only then for the post and its owner.
UpdatePostLoadValidatesFirst(s, u, id, body) ==
  LET post == findById(id)
      r == [NewReq("updatePost", u, id) EXCEPT !.body = body]
  IN  /\ Free(s)
      /\ started' = started + 1
      /\ req' = [req EXCEPT ![s] =
           IF ~postValidation(body) THEN Stop(r, 400)
           ELSE IF post = NoPost THEN Stop(r, 404)
           ELSE IF NotAuthorized(post.author, u) THEN Stop(r, 403)
           ELSE [r EXCEPT !.pc = "save"]]
      /\ UNCHANGED <<users, posts, nextPid, nextCid>>

\* The handler up to the await of findByIdAndUpdate; the record of a request
\* refused here keeps the payload that was sent.
UpdatePostLoad(s, u, id, body) ==
  LET post == findById(id)
      r == [NewReq("updatePost", u, id) EXCEPT !.body = body]
  IN  /\ Free(s)
      /\ started' = started + 1
      /\ req' = [req EXCEPT ![s] =
           IF post = NoPost THEN Stop(r, 404)
           ELSE IF NotAuthorized(post.author, u) THEN Stop(r, 403)
           ELSE IF ~postValidation(body) THEN Stop(r, 400)
           ELSE [r EXCEPT !.pc = "save"]]
      /\ UNCHANGED <<users, posts, nextPid, nextCid>>

\* The slug carries a unique index: a write that would give two documents the
\* same slug is refused by the store (duplicate key, answered 400).
SlugClash(id, body) ==
  /\ "slug" \in body.fields
  /\ \E j \in PostIds \ {id} : posts[j] # NoPost /\ posts[j].slug = body.slug

UpdatePostWrite(s) ==
  LET r == req[s]
  IN  /\ r.pc = "save"
      /\ r.op = "updatePost"
      /\ IF ~Exists(r.id)
           THEN Refuse(s, r, 200)
           ELSE IF SlugClash(r.id, r.body) THEN Refuse(s, r, 400)
           ELSE Commit(s, r, [posts EXCEPT ![r.id] = Merge(@, r.body)], 200)
      /\ UNCHANGED <<users, nextPid, nextCid, started>>

\* ------------------------------------------------------------- deletePost
DeletePostLoad(s, u, id) ==
  LET post == findById(id)
      r == NewReq("deletePost", u, id)
  IN  /\ Free(s)
      /\ started' = started + 1
      /\ req' = [req EXCEPT ![s] =
           IF post = NoPost THEN Respond(r, 404)
           ELSE IF NotAuthorized(post.author, u) THEN Respond(r, 403)
           ELSE [r EXCEPT !.pc = "save"]]
      /\ UNCHANGED <<users, posts, nextPid, nextCid>>

\* A deletion that keeps the document and marks it archived.
DeletePostArchives(s) ==
  LET r == req[s]
  IN  /\ r.pc = "save"
      /\ r.op = "deletePost"
      /\ IF Exists(r.id)
           THEN Commit(s, r, [posts EXCEPT ![r.id].status = "archived"], 200)
           ELSE Refuse(s, r, 200)
      /\ UNCHANGED <<users, nextPid, nextCid, started>>

\* Post.findByIdAndDelete(id): removes the document when there is one.
DeletePostWrite(s) ==
  LET r == req[s]
  IN  /\ r.pc = "save"
      /\ r.op = "deletePost"
      /\ Commit(s, r, [posts EXCEPT ![r.id] = NoPost], 200)
      /\ UNCHANGED <<users, nextPid, nextCid, started>>

\* --------------------------------------------------------------- likePost
Range(q) == {q[i] : i \in 1..Len(q)}

\* post.likes.some((like) => like.user.toString() === req.user.id)
HasLiked(likes, u) == \E i \in 1..Len(likes) : likes[i] = u

RECURSIVE Without(_, _)
\* post.likes.filter((like) => like.user.toString() !== req.user.id)
Without(likes, u) ==
  IF likes = << >> THEN << >>
  ELSE IF Head(likes) = u THEN Without(Tail(likes), u)
  ELSE <<Head(likes)>> \o Without(Tail(likes), u)

\* A toggle that pushes the like whether or not the user has liked the post.
AlwaysPush(likes, u) == Append(likes, u)

\* The likes of the loaded document after the toggle of lines 346-354.
Toggle(likes, u) == IF HasLiked(likes, u) THEN Without(likes, u) ELSE Append(likes, u)

\* A likePost that applies the visibility test of getPost to the post it
\* has found.
LikePostLoadIfVisible(s, u, id) ==
  LET post == findById(id)
      r == NewReq("likePost", u, id)
  IN  /\ Free(s)
      /\ started' = started + 1
      /\ req' = [req EXCEPT ![s] =
           IF post = NoPost THEN Respond(r, 404)
           ELSE IF Hidden(post, u) THEN Respond(r, 404)
           ELSE [r EXCEPT !.pc = "save", !.v = post.v,
                          !.wasLiked = HasLiked(post.likes, u),
                          !.likes = Toggle(post.likes, u)]]
      /\ UNCHANGED <<users, posts, nextPid, nextCid>>

\* The handler from the lookup to the await of post.save().
LikePostLoad(s, u, id) ==
  LET post == findById(id)
      r == NewReq("likePost", u, id)
  IN  /\ Free(s)
      /\ started' = started + 1
      /\ req' = [req EXCEPT ![s] =
           IF post = NoPost THEN Respond(r, 404)
           ELSE [r EXCEPT !.pc = "save", !.v = post.v,
                          !.wasLiked = HasLiked(post.likes, u),
                          !.likes = Toggle(post.likes, u)]]
      /\ UNCHANGED <<users, posts, nextPid, nextCid>>

\* A save that writes the likes array of the loaded document back whole.
SavedLikesWhole(stored, r) == r.likes

\* What post.save() writes for the likes: the pushed element is appended to
\* the stored array ($push); a reassigned array replaces the stored one
\* ($set), and only while the stored __v is the loaded one.
SavedLikes(stored, r) ==
  IF r.wasLiked THEN r.likes ELSE Append(stored.likes, r.user)

VersionConflict(stored, r) == r.wasLiked /\ stored.v # r.v

LikePostSave(s) ==
  LET r == req[s]
  IN  /\ r.pc = "save"
      /\ r.op = "likePost"
      /\ IF ~Exists(r.id) \/ VersionConflict(findById(r.id), r)
           THEN Refuse(s, r, 500)
           ELSE Commit(s, [r EXCEPT !.likesCount = Len(r.likes), !.isLiked = ~r.wasLiked],
                       [posts EXCEPT ![r.id].likes = SavedLikes(posts[r.id], r),
                                     ![r.id].v = @ + 1],
                       200)
      /\ UNCHANGED <<users, nextPid, nextCid, started>>

\* ------------------------------------------------------------- addComment
Comment(cid, u, text) == [id |-> cid, user |-> u, text |-> text]

AddCommentLoad(s, u, id, text) ==
  LET post == findById(id)
      r == [NewReq("addComment", u, id) EXCEPT !.text = text]
  IN  /\ Free(s)
      /\ started' = started + 1
      /\ IF text = << >>
           THEN /\ req' = [req EXCEPT ![s] = Respond(r, 400)]
                /\ nextCid' = nextCid
           ELSE IF post = NoPost
             THEN /\ req' = [req EXCEPT ![s] = Respond(r, 404)]
                  /\ nextCid' = nextCid
             ELSE /\ req' = [req EXCEPT ![s] =
                       [r EXCEPT !.pc = "save", !.v = post.v, !.cid = nextCid,
                                 !.text = Trim(text)]]
                  /\ nextCid' = nextCid + 1
      /\ UNCHANGED <<users, posts, nextPid>>

\* The comment subdocument's text is a required path: document validation
\* refuses an empty string.
ValidComment(text) == text # << >>

\* A save of the new comment that counts a view of the post as well.
AddCommentSaveCountsView(s) ==
  LET r == req[s]
  IN  /\ r.pc = "save"
      /\ r.op = "addComment"
      /\ IF ~ValidComment(r.text)
           THEN Refuse(s, r, 400)
           ELSE IF ~Exists(r.id)
           THEN Refuse(s, r, 500)
           ELSE Commit(s, r,
                       [posts EXCEPT
                          ![r.id].comments = Append(@, Comment(r.cid, r.user, r.text)),
                          ![r.id].views = @ + 1,
                          ![r.id].v = @ + 1],
                       201)
      /\ UNCHANGED <<users, nextPid, nextCid, started>>

\* post.save() after comments.push: the document is validated (a failure is
\* a ValidationError, answered 400), then the new subdocument is sent as a
\* $push.
AddCommentSave(s) ==
  LET r == req[s]
  IN  /\ r.pc = "save"
      /\ r.op = "addComment"
      /\ IF ~ValidComment(r.text)
           THEN Refuse(s, r, 400)
           ELSE IF ~Exists(r.id)
           THEN Refuse(s, r, 500)
           ELSE Commit(s, r,
                       [posts EXCEPT
                          ![r.id].comments = Append(@, Comment(r.cid, r.user, r.text)),
                          ![r.id].v = @ + 1],
                       201)
      /\ UNCHANGED <<users, nextPid, nextCid, started>>

\* ---------------------------------------------------------- deleteComment
\* post.comments.id(commentId): the comments with that id (none or one).
CommentsWithId(comments, cid) == {i \in 1..Len(comments) : comments[i].id = cid}

RECURSIVE PullOthers(_, _)
\* A pull whose test is inverted: it removes every comment but the one named.
PullOthers(comments, cid) ==
  IF comments = << >> THEN << >>
  ELSE IF Head(comments).id # cid THEN PullOthers(Tail(comments), cid)
  ELSE <<Head(comments)>> \o PullOthers(Tail(comments), cid)

RECURSIVE Pull(_, _)
\* comments.pull(commentId)
Pull(comments, cid) ==
  IF comments = << >> THEN << >>
  ELSE IF Head(comments).id = cid THEN Pull(Tail(comments), cid)
  ELSE <<Head(comments)>> \o Pull(Tail(comments), cid)

\* The author of the first comment of the post, whatever id is asked for.
FirstCommentUser(comments, cid) == comments[1].user

\* The author of the comment post.comments.id(cid) returns.
CommentUser(comments, cid) ==
  comments[CHOOSE i \in CommentsWithId(comments, cid) : TRUE].user

DeleteCommentLoad(s, u, id, cid) ==
  LET post == findById(id)
      r == [NewReq("deleteComment", u, id) EXCEPT !.cid = cid]
  IN  /\ Free(s)
      /\ started' = started + 1
      /\ req' = [req EXCEPT ![s] =
           IF post = NoPost THEN Respond(r, 404)
           ELSE IF CommentsWithId(post.comments, cid) = {} THEN Respond(r, 404)
           ELSE IF NotAuthorized(CommentUser(post.comments, cid), u) THEN Respond(r, 403)
           ELSE [r EXCEPT !.pc = "save"]]
      /\ UNCHANGED <<users, posts, nextPid, nextCid>>

\* post.save() after comments.pull: $pull by _id on the stored array.
DeleteCommentSave(s) ==
  LET r == req[s]
  IN  /\ r.pc = "save"
      /\ r.op = "deleteComment"
      /\ IF ~Exists(r.id)
           THEN Refuse(s, r, 500)
           ELSE Commit(s, r,
                       [posts EXCEPT ![r.id].comments = Pull(@, r.cid), ![r.id].v = @ + 1],
                       200)
      /\ UNCHANGED <<users, nextPid, nextCid, started>>

\* ------------------------------------------------------------------ next
CommentIds == {1, 2}

Slugs == {Slug(GoodTitle, n) : n \in 0..(Cardinality(PostIds) - 1)}

\* A request of the read and engagement routes (and of createPost) arrives
\* and its handler runs up to its first await of a write.
EngageArrive ==
  \/ \E s \in Slots, u \in Authors, body \in CreateBodies : CreatePost(s, u, body)
  \/ \E s \in Slots, u \in Requesters, id \in PostIds : GetPostLoad(s, u, id)
  \/ \E s \in Slots, u \in Requesters, slug \in Slugs : GetPostBySlugLoad(s, u, slug)
  \/ \E s \in Slots, u \in Members, id \in PostIds : LikePostLoad(s, u, id)
  \/ \E s \in Slots, u \in Members, id \in PostIds, text \in Texts :
       AddCommentLoad(s, u, id, text)
  \/ \E s \in Slots, u \in Users, id \in PostIds, cid \in CommentIds :
       DeleteCommentLoad(s, u, id, cid)

\* A request of any route arrives.
Arrive ==
  \/ EngageArrive
  \/ \E s \in Slots, u \in Users, id \in PostIds, body \in UpdateBodies :
       UpdatePostLoad(s, u, id, body)
  \/ \E s \in Slots, u \in Users, id \in PostIds : DeletePostLoad(s, u, id)

\* The store answers the save a request awaits and the request responds.
EngageSettle ==
  \/ \E s \in Slots : GetPostSave(s)
  \/ \E s \in Slots : GetPostBySlugSave(s)
  \/ \E s \in Slots : LikePostSave(s)
  \/ \E s \in Slots : AddCommentSave(s)
  \/ \E s \in Slots : DeleteCommentSave(s)

Settle ==
  \/ EngageSettle
  \/ \E s \in Slots : UpdatePostWrite(s)
  \/ \E s \in Slots : DeletePostWrite(s)

\* Requests overlap: any request may arrive while another awaits its write.
Next == Arrive \/ Settle

Spec == Init /\ [][Next]_vars

\* The requests that write the comments of a post: createPost, addComment,
\* deleteComment, and updatePost with a payload that carries comments.
CommentNext ==
  \/ \E s \in Slots, u \in Authors, body \in CreateBodies : CreatePost(s, u, body)
  \/ \E s \in Slots, u \in Members, id \in PostIds, text \in Texts :
       AddCommentLoad(s, u, id, text)
  \/ \E s \in Slots, u \in Users, id \in PostIds, cid \in CommentIds :
       DeleteCommentLoad(s, u, id, cid)
  \/ \E s \in Slots, u \in Users, id \in PostIds, body \in CommentBodies :
       UpdatePostLoad(s, u, id, body)
  \/ \E s \in Slots : AddCommentSave(s)
  \/ \E s \in Slots : DeleteCommentSave(s)
  \/ \E s \in Slots : UpdatePostWrite(s)

CommentSpec == Init /\ [][CommentNext]_vars

\* ------------------------------------------------------------ user routes
\* router.use(protect) of the user routes: a request without an
\* authenticated identity is answered 401 and reaches no handler.
protect(u) == u # Anon

\* User.findById(req.params.id)
findUserById(id) == id \in users

\* ------------------------------------------------------------- deleteUser
\* The admin middleware of the user routes: req.user.role must be admin.
admin(u) == Role(u) = "admin"

\* Post.deleteMany({ author: id })
deleteMany(id) ==
  [i \in PostIds |->
     IF posts[i] # NoPost /\ posts[i].author = id THEN NoPost ELSE posts[i]]

\* The handler from User.findById to the await of Post.deleteMany.
DeleteUserLoad(s, u, target) ==
  LET r == [NewReq("deleteUser", u, 0) EXCEPT !.target = target]
  IN  /\ Free(s)
      /\ started' = started + 1
      /\ req' = [req EXCEPT ![s] =
           IF ~admin(u) THEN Respond(r, 403)
           ELSE IF ~findUserById(target) THEN Respond(r, 404)
           ELSE IF target = u THEN Respond(r, 400)
           ELSE [r EXCEPT !.pc = "deleteMany"]]
      /\ UNCHANGED <<posts, users, nextPid, nextCid>>

\* The store runs Post.deleteMany; the handler goes on to the await of
\* User.findByIdAndDelete.
DeleteUserPosts(s) ==
  LET r == req[s]
  IN  /\ r.pc = "deleteMany"
      /\ r.op = "deleteUser"
      /\ posts' = deleteMany(r.target)
      /\ req' = [req EXCEPT ![s].pc = "save"]
      /\ UNCHANGED <<users, nextPid, nextCid, started>>

\* The store runs User.findByIdAndDelete and the request is answered 200.
DeleteUserWrite(s) ==
  LET r == req[s]
  IN  /\ r.pc = "save"
      /\ r.op = "deleteUser"
      /\ users' = users \ {r.target}
      /\ req' = [req EXCEPT ![s] = Respond(r, 200)]
      /\ UNCHANGED <<posts, nextPid, nextCid, started>>

\* The ids a deleteUser names: those of the users and one that is not stored.
UserIds == Users \cup {"zed"}

\* protect of the post routes finds the user of the token in the store: only
\* a stored user reaches createPost.
Authenticated(u) == protect(u) /\ u \in users

\* Accounts are deleted while their owners create posts.
UserNext ==
  \/ \E s \in Slots, u \in Authors, body \in CreateBodies :
       Authenticated(u) /\ CreatePost(s, u, body)
  \/ \E s \in Slots, u \in Users, target \in UserIds :
       Authenticated(u) /\ DeleteUserLoad(s, u, target)
  \/ \E s \in Slots : DeleteUserPosts(s)
  \/ \E s \in Slots : DeleteUserWrite(s)

UserSpec == Init /\ [][UserNext]_vars

\* One request at a time: a request arrives only when none is in flight.
Quiet == \A s \in Slots : req[s].pc \notin Waiting

SerialNext == (Quiet /\ Arrive) \/ Settle

SerialSpec == Init /\ [][SerialNext]_vars

\* Overlapping requests of the read and engagement routes only: no updatePost
\* and no deletePost runs.
EngageNext == EngageArrive \/ EngageSettle

EngageSpec == Init /\ [][EngageNext]_vars

\* ================================================================ listing
\* getPosts of the post controller and getUserPosts of the user controller,
\* run on a collection that no request writes meanwhile.

\* The result of parseInt(x, 10): NaN, or an integer.
NaN == [nan |-> TRUE, n |-> 0]
Num(n) == [nan |-> FALSE, n |-> n]

\* parseInt(req.query.x, 10) || d: NaN and 0 are falsy.
OrDefault(parsed, d) == IF parsed.nan \/ parsed.n = 0 THEN d ELSE parsed.n

\* A query parameter that is absent or empty is falsy.
NoParam == ""

\* req.query.tags.split(","): the tags of the parameter, given as the
\* sequence of its comma-separated parts.
Split(tags) == {tags[i] : i \in 1..Len(tags)}

\* A filter built from req.query that does not restrict the status.
PostsQueryAnyStatus(q) ==
  [status |-> NoParam,
   category |-> q.category,
   tags |-> IF q.tags # << >> THEN Split(q.tags) ELSE {},
   search |-> q.search,
   author |-> q.author]

\* The filter getPosts builds from req.query.
PostsQuery(q) ==
  [status |-> "published",
   category |-> q.category,
   tags |-> IF q.tags # << >> THEN Split(q.tags) ELSE {},
   search |-> q.search,
   author |-> q.author]

\* The documents a filter selects: every field the filter carries must match.
Selects(query, post) ==
  /\ query.status # NoParam => post.status = query.status
  /\ query.category # NoParam => post.category = query.category
  /\ query.tags # {} => post.tags \cap query.tags # {}
  /\ query.search # NoParam => query.search \in post.words
  /\ query.author # NoParam => post.author = query.author

Found(query) == {i \in DOMAIN posts : posts[i] # NoPost /\ Selects(query, posts[i])}

\* Post.countDocuments(query)
countDocuments(query) == Cardinality(Found(query))

\* The order of the sort options; documents the options do not tell apart
\* come in the order of the store (by id).
Precedes(i, j, sort) ==
  LET a == posts[i]
      b == posts[j]
  IN  CASE sort = "oldest" -> a.publishedAt < b.publishedAt
                               \/ (a.publishedAt = b.publishedAt /\ i < j)
        [] sort = "popular" -> a.views > b.views \/ (a.views = b.views /\ i < j)
        [] sort = "liked" -> i < j
        [] sort = "created" -> a.createdAt > b.createdAt
                               \/ (a.createdAt = b.createdAt /\ i < j)
        [] OTHER -> a.publishedAt > b.publishedAt
                    \/ (a.publishedAt = b.publishedAt /\ i < j)

RECURSIVE SortIds(_, _)
SortIds(ids, sort) ==
  IF ids = {} THEN << >>
  ELSE LET first == CHOOSE i \in ids : \A j \in ids \ {i} : Precedes(i, j, sort)
       IN  <<first>> \o SortIds(ids \ {first}, sort)

\* find(query).sort(sort).limit(limit).skip(startIndex): the ids of the page.
FindPage(query, sort, limit, startIndex) ==
  LET all == SortIds(Found(query), sort)
      last == IF startIndex + limit < Len(all) THEN startIndex + limit ELSE Len(all)
  IN  SubSeq(all, startIndex + 1, last)

\* A next entry that is also given when the page ends exactly at the total.
PaginationNextInclusive(page, limit, startIndex, total) ==
  IF startIndex + limit <= total THEN [page |-> page + 1, limit |-> limit] ELSE NoPage

\* The pagination object of getPosts.
PaginationNext(page, limit, startIndex, total) ==
  IF startIndex + limit < total THEN [page |-> page + 1, limit |-> limit] ELSE NoPage

PaginationPrev(page, limit, startIndex) ==
  IF startIndex > 0 THEN [page |-> page - 1, limit |-> limit] ELSE NoPage

\* ---------------------------------------------------------------- getPosts
\* req.query of a listing request.
Query(page, limit, category, tags, search, author, sort) ==
  [page |-> page, limit |-> limit, category |-> category, tags |-> tags,
   search |-> search, author |-> author, sort |-> sort]

PageQuery(page, limit) == Query(page, limit, NoParam, << >>, NoParam, NoParam, NoParam)

\* The listing of a response: the request it answers (query, and the target
\* user of getUserPosts), total, count, the ids of data.posts in order, and
\* the pagination entries.
Listing(q, target, total, ids, next, prev) ==
  [q |-> q, target |-> target, total |-> total, count |-> Len(ids), ids |-> ids,
   next |-> next, prev |-> prev]

GetPosts(s, u, q) ==
  LET page == OrDefault(q.page, DefaultPage)
      limit == OrDefault(q.limit, DefaultLimit)
      startIndex == (page - 1) * limit
      query == PostsQuery(q)
      total == countDocuments(query)
      ids == FindPage(query, q.sort, limit, startIndex)
      r == NewReq("getPosts", u, 0)
  IN  /\ Free(s)
      /\ started' = started + 1
      /\ req' = [req EXCEPT ![s] =
           Respond([r EXCEPT !.list =
                      Listing(q, NoParam, total, ids,
                              PaginationNext(page, limit, startIndex, total),
                              PaginationPrev(page, limit, startIndex))],
                   200)]
      /\ UNCHANGED <<users, posts, nextPid, nextCid>>

\* ------------------------------------------------------------ getUserPosts
\* A filter that selects the posts of the target whatever their status.
UserPostsQueryAll(u, target) ==
  [status |-> NoParam, category |-> NoParam, tags |-> {}, search |-> NoParam,
   author |-> target]

\* The filter getUserPosts builds: the posts of the target, and only the
\* published ones unless req.user is the target or an admin.
UserPostsQuery(u, target) ==
  [status |-> IF u # target /\ Role(u) # "admin" THEN "published" ELSE NoParam,
   category |-> NoParam, tags |-> {}, search |-> NoParam, author |-> target]

GetUserPosts(s, u, target, q) ==
  LET page == OrDefault(q.page, DefaultPage)
      limit == OrDefault(q.limit, DefaultLimit)
      startIndex == (page - 1) * limit
      query == UserPostsQuery(u, target)
      total == countDocuments(query)
      ids == FindPage(query, "created", limit, startIndex)
      r == [NewReq("getUserPosts", u, 0) EXCEPT
              !.list = Listing(q, target, 0, << >>, NoPage, NoPage)]
  IN  /\ Free(s)
      /\ started' = started + 1
      /\ req' = [req EXCEPT ![s] =
           IF ~protect(u) THEN Respond(r, 401)
           ELSE IF ~findUserById(target) THEN Respond(r, 404)
           ELSE Respond([r EXCEPT !.list =
                           Listing(q, target, total, ids, NoPage, NoPage)], 200)]
      /\ UNCHANGED <<users, posts, nextPid, nextCid>>

\* ------------------------------------------------------ listed collection
\* A stored post as the listings read it.
ListedPost(status, author, category, tags, words, views, at) ==
  [status |-> status, author |-> author, category |-> category, tags |-> tags,
   words |-> words, views |-> views, likes |-> << >>, comments |-> << >>,
   title |-> GoodTitle, content |-> GoodContent, slug |-> Slug(GoodTitle, at),
   createdAt |-> at, publishedAt |-> at, v |-> 0]

\* The posts the listed collection is drawn from, for its position at.
ListedPosts(at) ==
  { ListedPost("published", "ann", "tech", {"js"}, {"hello"}, 2, at),
    ListedPost("published", "bob", "life", {}, {}, 5, at),
    ListedPost("draft", "ann", "tech", {"js"}, {"hello"}, 0, at),
    ListedPost("archived", "bob", "tech", {"js", "go"}, {"hello"}, 9, at) }

ListedIds == 1..MaxListed

RawPages == {NaN, Num(2), Num(3)}
RawLimits == {Num(0), Num(1), Num(2), Num(10)}
Sorts == {NoParam, "oldest", "popular", "liked"}

Queries ==
  { Query(page, limit, category, tags, search, author, sort) :
      page \in RawPages, limit \in RawLimits, category \in {NoParam, "tech"},
      tags \in {<< >>, <<"js", "go">>}, search \in {NoParam, "hello"},
      author \in {NoParam, "ann"}, sort \in Sorts }

PageQueries == {PageQuery(page, limit) : page \in RawPages, limit \in RawLimits}

Targets == {"ann", "bob", "zed"}

\* A collection of MaxListed posts, created and published in the order of
\* their ids, and no request yet.
ListInit ==
  /\ posts \in {c \in [ListedIds -> UNION {ListedPosts(i) : i \in ListedIds}] :
                  \A i \in ListedIds : c[i] \in ListedPosts(i)}
  /\ users = Users
  /\ nextPid = MaxListed + 1
  /\ nextCid = 1
  /\ started = 0
  /\ req = [s \in Slots |-> IdleReq]

\* One listing request on each collection: the listings write nothing, so a
\* listing after another finds what it would find alone.
ListNext ==
  \/ started = 0 /\ \E u \in Requesters, q \in Queries : GetPosts(Turn, u, q)
  \/ started = 0 /\ \E u \in Requesters, target \in Targets, q \in PageQueries :
                       GetUserPosts(Turn, u, target, q)

ListSpec == ListInit /\ [][ListNext]_vars

\* ================================================================ claims
\* The slot a step hands a new request of handler op to, and the slot whose
\* request of handler op a step ends.
Arrives(s, op) == started' = started + 1 /\ Free(s) /\ req'[s].op = op

Settles(s, op) == req[s].pc = "save" /\ req[s].op = op /\ req'[s].pc = "done"

Reads == {"getPost", "getPostBySlug"}

\* The post id has been created and its document is no longer stored.
Deleted(id) == id \in PostIds /\ id < nextPid /\ posts[id] = NoPost

\* ---------------------------------------------------------------- C1
C1_Arrival(s) ==
  LET r == req'[s]
      post == findById(r.id)
  IN  ((\E op \in Reads : Arrives(s, op)) /\ post # NoPost /\ post.status # "published")
      => IF r.user = Anon \/ (r.user # post.author /\ Role(r.user) # "admin")
           THEN r.pc = "done" /\ r.status = 404
           ELSE IF r.user = post.author
             THEN r.pc = "done" /\ r.status = 200
             ELSE r.pc = "save"

C1_Answer(s) ==
  (\E op \in Reads : Settles(s, op))
  => req'[s].status = (IF Exists(req[s].id) THEN 200 ELSE 500)

\* C1: a getPost or getPostBySlug on a post whose status is not published
\* is answered 404 (never 200, never 403) when it is sent anonymously or by
\* a user who is neither the author nor an admin; sent by the author it is
\* answered 200 with the post, and sent by an admin it passes the visibility test and
\* is answered 200 with the post as long as the document is still stored
\* when the view count is saved.
C1_UnpublishedIsNotFound ==
  [][\A s \in Slots : C1_Arrival(s) /\ C1_Answer(s)]_vars

\* ---------------------------------------------------------------- C2
\* Two likePost requests of different users, neither having liked the post,
\* that loaded the same version of it (each loaded before the other saved),
\* both answered.
ConcurrentLikes(a, b) ==
  /\ a # b
  /\ req[a].op = "likePost" /\ req[b].op = "likePost"
  /\ req[a].pc = "done" /\ req[b].pc = "done"
  /\ req[a].status # 404 /\ req[b].status # 404
  /\ req[a].id = req[b].id
  /\ req[a].user # req[b].user
  /\ ~req[a].wasLiked /\ ~req[b].wasLiked
  /\ req[a].v = req[b].v

\* C2: when two likePost requests of two different users who have not liked
\* the post overlap on it, both are answered 200 and, once both are done, the
\* stored likes hold both users.
C2_ConcurrentLikesKept ==
  \A a, b \in Slots :
    ConcurrentLikes(a, b)
    => /\ req[a].status = 200 /\ req[b].status = 200
       /\ Exists(req[a].id)
       /\ HasLiked(posts[req[a].id].likes, req[a].user)
       /\ HasLiked(posts[req[a].id].likes, req[b].user)

\* C2 witness: two overlapping likes of different users have both completed.
C2_Witness == \E a, b \in Slots : ConcurrentLikes(a, b) /\ req[a].status = 200

\* ---------------------------------------------------------------- C3
HasComment(comments, c) == \E i \in 1..Len(comments) : comments[i] = c

\* The step in which the request of slot s (a likePost, an addComment, a
\* deleteComment or a view-counting read) ends after its save.
C3_Step(s) ==
  LET r == req[s]
      id == r.id
      done == req'[s]
  IN  (/\ r.pc = "save" /\ done.pc = "done"
       /\ r.op \in {"likePost", "addComment", "deleteComment"} \cup Reads
       /\ Exists(id))
      => /\ posts'[id] # NoPost
         /\ \A i \in 1..Len(posts[id].comments) :
              (r.op = "deleteComment" => posts[id].comments[i].id # r.cid)
              => HasComment(posts'[id].comments, posts[id].comments[i])
         /\ \A u \in Range(posts[id].likes) :
              (r.op = "likePost" => u # r.user) => HasLiked(posts'[id].likes, u)
         /\ (r.op = "addComment" /\ done.status = 201)
              => HasComment(posts'[id].comments, Comment(r.cid, r.user, r.text))
         /\ (r.op = "likePost" /\ done.status = 200 /\ done.isLiked)
              => HasLiked(posts'[id].likes, r.user)

\* C3: in every interleaving of likePost, addComment, deleteComment, getPost
\* and getPostBySlug requests on a post, the save of a likePost, an addComment, a
\* deleteComment of another comment and of a view-counting getPost or
\* getPostBySlug keeps every stored comment and every stored like of another
\* user, and the comment of an addComment answered 201 (the like of a
\* likePost answered 200 with isLiked) is in the stored post when the request
\* is answered.
C3_EngagementNotLost == [][\A s \in Slots : C3_Step(s)]_vars

\* C3 witness: an addComment and a likePost that loaded the same version of
\* the post have both been answered with success, and the comment and the
\* like are both stored.
C3_Witness ==
  \E a, b \in Slots :
    /\ req[a].op = "addComment" /\ req[a].pc = "done" /\ req[a].status = 201
    /\ req[b].op = "likePost" /\ req[b].pc = "done" /\ req[b].status = 200
    /\ req[a].id = req[b].id /\ req[a].v = req[b].v
    /\ Exists(req[a].id)
    /\ HasComment(posts[req[a].id].comments, Comment(req[a].cid, req[a].user, req[a].text))
    /\ HasLiked(posts[req[a].id].likes, req[b].user)

\* ---------------------------------------------------------------- C4
\* C4: in every reachable state no user id is twice in the likes of a post.
C4_LikesUnique ==
  \A id \in PostIds :
    Exists(id)
    => \A i, j \in 1..Len(posts[id].likes) :
         posts[id].likes[i] = posts[id].likes[j] => i = j

\* ---------------------------------------------------------------- C5
\* C5: no step makes the stored views of a post smaller.
C5_ViewsNeverDecrease ==
  [][\A id \in PostIds :
       (Exists(id) /\ posts'[id] # NoPost) => posts'[id].views >= posts[id].views]_vars

\* ---------------------------------------------------------------- C6
Mutations == {"updatePost", "deletePost"}

C6_Arrival(s) ==
  LET r == req'[s]
      post == findById(r.id)
  IN  ((\E op \in Mutations : Arrives(s, op)) /\ post # NoPost)
      => IF r.user # post.author /\ Role(r.user) # "admin"
           THEN r.pc = "done" /\ r.status = 403 /\ posts' = posts
           ELSE r.status # 403 /\ (r.pc = "save" \/ r.status = 400)

C6_Answer(s) ==
  (\E op \in Mutations : Settles(s, op)) => req'[s].status \in {200, 400}

\* C6: an updatePost or deletePost on a stored post by a user who is neither
\* its author nor an admin is answered 403 (not 404) at once and writes
\* nothing; by the author or an admin it is never answered 403: it goes on
\* to its write (or, for updatePost, to the 400 of the validation).
C6_MutationAuthorization ==
  [][\A s \in Slots : C6_Arrival(s) /\ C6_Answer(s)]_vars

\* C6 witness: on ann's post, bob's updatePost has been answered 403 and the
\* admin's updatePost 200.
C6_Witness ==
  \E a, b \in Slots :
    /\ Exists(1) /\ posts[1].author = "ann"
    /\ req[a].op = "updatePost" /\ req[a].pc = "done" /\ req[a].user = "bob"
    /\ req[a].id = 1 /\ req[a].status = 403
    /\ req[b].op = "updatePost" /\ req[b].pc = "done" /\ req[b].user = "root"
    /\ req[b].id = 1 /\ req[b].status = 200

\* ---------------------------------------------------------------- C7
\* C7: an updatePost answered 200 leaves the author of the stored post as it
\* was, whatever fields its body carries.
C7_AuthorImmutable ==
  [][\A s \in Slots :
       (Settles(s, "updatePost") /\ req'[s].status = 200 /\ Exists(req[s].id))
       => /\ posts'[req[s].id] # NoPost
          /\ posts'[req[s].id].author = posts[req[s].id].author]_vars

\* ---------------------------------------------------------------- C8
C8_Arrival(s) ==
  LET r == req'[s]
      post == findById(r.id)
  IN  (Arrives(s, "deleteComment") /\ post # NoPost)
      => IF CommentsWithId(post.comments, r.cid) = {}
           THEN r.pc = "done" /\ r.status = 404 /\ posts' = posts
           ELSE LET c == post.comments[CHOOSE i \in CommentsWithId(post.comments, r.cid) : TRUE]
                IN  IF r.user # c.user /\ Role(r.user) # "admin"
                      THEN r.pc = "done" /\ r.status = 403 /\ posts' = posts
                      ELSE r.pc = "save" /\ posts' = posts

C8_Answer(s) ==
  LET r == req[s]
  IN  (Settles(s, "deleteComment") /\ Exists(r.id))
      => /\ req'[s].status = 200
         /\ posts'[r.id] # NoPost
         /\ CommentsWithId(posts'[r.id].comments, r.cid) = {}

\* A comment leaves a post that stays stored only in the save of a
\* deleteComment naming it, requested by its author or by an admin.
C8_Removal(id) ==
  (Exists(id) /\ posts'[id] # NoPost)
  => \A i \in 1..Len(posts[id].comments) :
       LET c == posts[id].comments[i]
       IN  ~HasComment(posts'[id].comments, c)
           => \E s \in Slots :
                /\ Settles(s, "deleteComment")
                /\ req[s].id = id /\ req[s].cid = c.id
                /\ (req[s].user = c.user \/ Role(req[s].user) = "admin")

\* C8: a deleteComment naming a comment id the post does not hold is answered
\* 404; naming a comment of another user it is answered 403 and the comment
\* stays unless the requester is an admin (being the author of the post does
\* not help); by the author of the comment or an admin it removes the
\* comment, on whoever's post; and a comment is removed in no other way.
C8_CommentDeleteAuthorization ==
  [][/\ \A s \in Slots : C8_Arrival(s) /\ C8_Answer(s)
     /\ \A id \in PostIds : C8_Removal(id)]_vars

\* C8 witness: on ann's post, ann's deleteComment of bob's comment has been
\* answered 403 and bob's deleteComment of it 200, and the comment is gone.
C8_Witness ==
  \E a, b \in Slots :
    /\ Exists(1) /\ posts[1].author = "ann"
    /\ req[a].op = "deleteComment" /\ req[a].pc = "done" /\ req[a].user = "ann"
    /\ req[a].id = 1 /\ req[a].status = 403
    /\ req[b].op = "deleteComment" /\ req[b].pc = "done" /\ req[b].user = "bob"
    /\ req[b].id = 1 /\ req[b].status = 200 /\ req[b].cid = req[a].cid
    /\ CommentsWithId(posts[1].comments, req[b].cid) = {}

\* ---------------------------------------------------------------- C9
\* A deletePost answered 200 has removed the document.
C9_Deletes(s) ==
  (Settles(s, "deletePost") /\ req'[s].status = 200) => posts'[req[s].id] = NoPost

\* No step stores a document again under the id of a deleted post: not the
\* save of a request that loaded the post before the deletion either.
C9_StaysGone(id) == Deleted(id) => posts'[id] = NoPost

\* A request of handler op arriving for the id of a deleted post is answered
\* 404 at once.
C9_NotFound(s, op) ==
  (Arrives(s, op) /\ Deleted(req'[s].id))
  => req'[s].pc = "done" /\ req'[s].status = 404

\* C9 as stated: after a successful deletePost the post is gone for good, and
\* every later getPost, likePost, addComment and deleteComment on its id is
\* answered 404.
C9_Original ==
  [][/\ \A s \in Slots : C9_Deletes(s)
     /\ \A id \in PostIds : C9_StaysGone(id)
     /\ \A s \in Slots :
          \A op \in {"getPost", "likePost", "addComment", "deleteComment"} :
            C9_NotFound(s, op)]_vars

\* C9 amended: after a successful deletePost the post is gone for good (a
\* save of a request that loaded it before the deletion stores nothing), and
\* every later getPost, likePost and deleteComment on its id, and every later
\* addComment with a non-empty text, is answered 404; an addComment without
\* text is answered 400.
C9_DeletedIsGone ==
  [][/\ \A s \in Slots : C9_Deletes(s)
     /\ \A id \in PostIds : C9_StaysGone(id)
     /\ \A s \in Slots :
          /\ \A op \in {"getPost", "likePost", "deleteComment"} : C9_NotFound(s, op)
          /\ req'[s].text # << >> => C9_NotFound(s, "addComment")
          /\ (Arrives(s, "addComment") /\ Deleted(req'[s].id) /\ req'[s].text = << >>)
               => req'[s].pc = "done" /\ req'[s].status = 400]_vars

\* C9 witness: post 1 has been deleted; a getPost that arrived afterwards has
\* been answered 404, and a likePost that had loaded the post before the
\* deletion has saved afterwards (the save failed and stored nothing).
C9_Witness ==
  \E a, b \in Slots :
    /\ Deleted(1)
    /\ req[a].op = "getPost" /\ req[a].pc = "done" /\ req[a].id = 1
    /\ req[a].status = 404
    /\ req[b].op = "likePost" /\ req[b].pc = "done" /\ req[b].id = 1
    /\ req[b].status = 500

\* ---------------------------------------------------------------- C10
\* With one request at a time the slots are taken in turn: the slot of the
\* latest request and the slot of the one before it.
Latest == IF started % 2 = 1 THEN "r1" ELSE "r2"

Before == IF started % 2 = 1 THEN "r2" ELSE "r1"

\* The last two requests were likePost requests of one user on one stored
\* post that the user had not liked, and both have been answered.
TwoSuccessiveLikes ==
  /\ started >= 2
  /\ req[Before].op = "likePost" /\ req[Latest].op = "likePost"
  /\ req[Before].pc = "done" /\ req[Latest].pc = "done"
  /\ req[Before].user = req[Latest].user
  /\ req[Before].id = req[Latest].id
  /\ req[Before].status # 404
  /\ ~req[Before].wasLiked

\* The likes the first of the two requests loaded: its local likes less the
\* element it pushed.
OriginalLikes == SubSeq(req[Before].likes, 1, Len(req[Before].likes) - 1)

\* C10: after two successive likePost requests of a user who had not liked
\* the post, both are answered 200, the first with isLiked true and the
\* second with isLiked false, the stored likes are the original ones, the
\* user is not among them, and the second likesCount is the original count.
C10_LikeTwiceRestores ==
  TwoSuccessiveLikes
  => /\ req[Before].status = 200 /\ req[Before].isLiked
     /\ req[Latest].status = 200 /\ ~req[Latest].isLiked
     /\ Exists(req[Latest].id)
     /\ posts[req[Latest].id].likes = OriginalLikes
     /\ ~HasLiked(posts[req[Latest].id].likes, req[Latest].user)
     /\ req[Latest].likesCount = Len(OriginalLikes)
     /\ req[Before].likesCount = Len(OriginalLikes) + 1

\* C10 witness: bob has liked and then unliked a post that ann likes.
C10_Witness ==
  /\ TwoSuccessiveLikes
  /\ req[Latest].user = "bob"
  /\ req[Latest].status = 200
  /\ Exists(1) /\ posts[1].likes = <<"ann">>

\* ---------------------------------------------------------------- C11
\* A read sent by the author of the stored post is answered without a save.
C11_AuthorRead(s) ==
  LET r == req'[s]
      post == findById(r.id)
  IN  ((\E op \in Reads : Arrives(s, op)) /\ post # NoPost /\ r.user = post.author)
      => r.pc = "done" /\ posts' = posts

\* A read answered 200 after its save was sent by someone else than the
\* author and has raised the stored views by exactly 1.
C11_CountedRead(s) ==
  LET r == req[s]
  IN  ((\E op \in Reads : Settles(s, op)) /\ req'[s].status = 200)
      => /\ r.user # posts[r.id].author
         /\ posts'[r.id].views = posts[r.id].views + 1

\* C11: with one request at a time, a successful getPost or getPostBySlug
\* sent by anyone but the author of the post raises the stored views by
\* exactly 1, and a read sent by the author leaves the stored views as they
\* are.
C11_ViewsCountNonAuthorReads ==
  [][\A s \in Slots : C11_AuthorRead(s) /\ C11_CountedRead(s)]_vars

\* ---------------------------------------------------------------- C12
\* The arrival of an addComment: the record of a request answered at once
\* carries the text as sent, the record of a request that goes on to its
\* save carries the text of the comment it pushed.
C12_Arrival(s) ==
  LET r == req'[s]
  IN  Arrives(s, "addComment")
      => /\ posts' = posts
         /\ r.pc = "done"
              => /\ r.status \in {400, 404}
                 /\ r.status = 400 <=> r.text = << >>
                 /\ r.status = 404 => findById(r.id) = NoPost
         /\ r.pc = "save" => Exists(r.id) /\ r.text \in {<< >>, Hi}

C12_Answer(s) ==
  LET r == req[s]
  IN  Settles(s, "addComment")
      => IF r.text = << >>
           THEN req'[s].status = 400 /\ posts' = posts
           ELSE IF Exists(r.id)
             THEN /\ req'[s].status = 201
                  /\ posts'[r.id].comments
                       = Append(posts[r.id].comments,
                                [id |-> r.cid, user |-> r.user, text |-> r.text])
             ELSE req'[s].status = 500 /\ posts' = posts

C13_ReadSurvivesFailedSave ==
  [][\A s \in Slots : (\E op \in Reads : Settles(s, op)) => req'[s].status = 200]_vars

\* ---------------------------------------------------------------- C14
\* The slots whose request is an answered listing of handler op.
Listed(op) == {s \in Slots : req[s].op = op /\ req[s].pc = "done" /\ req[s].status = 200}

\* C14: in the response of a getPosts with page and limit as the handler
\* reads them, offset = (page - 1) * limit and total the total of the
\* response, pagination.next is {page + 1, limit} when offset + limit < total
\* and absent otherwise, pagination.prev is {page - 1, limit} when offset > 0
\* and absent otherwise; page 2 with limit 10 and a total of at most 20 has
\* prev.page = 1 and no next.
C14_Pagination ==
  \A s \in Listed("getPosts") :
    LET l == req[s].list
        page == OrDefault(l.q.page, DefaultPage)
        limit == OrDefault(l.q.limit, DefaultLimit)
        offset == (page - 1) * limit
    IN  /\ l.next # NoPage <=> offset + limit < l.total
        /\ l.next # NoPage => l.next = [page |-> page + 1, limit |-> limit]
        /\ l.prev # NoPage <=> offset > 0
        /\ l.prev # NoPage => l.prev = [page |-> page - 1, limit |-> limit]
        /\ (l.q.page = Num(2) /\ l.q.limit = Num(10) /\ l.total <= 20)
           => l.next = NoPage /\ l.prev # NoPage /\ l.prev.page = 1

\* C14 witness: page 2 with limit 1 of three matching posts has both entries.
C14_Witness ==
  \E s \in Listed("getPosts") :
    /\ req[s].list.q.page = Num(2) /\ req[s].list.q.limit = Num(1)
    /\ req[s].list.total = 3
    /\ req[s].list.next = [page |-> 3, limit |-> 1]
    /\ req[s].list.prev = [page |-> 1, limit |-> 1]

\* ---------------------------------------------------------------- C15
\* The posts of target that viewer may be shown.
VisibleOf(target, viewer) ==
  {i \in DOMAIN posts :
     /\ posts[i] # NoPost
     /\ posts[i].author = target
     /\ (posts[i].status = "published" \/ viewer = target \/ Role(viewer) = "admin")}

\* C15: every post a getUserPosts returns is authored by the target user,
\* and is published unless the viewer is the target user or an admin; the
\* total counts exactly the posts of the target so visible to the viewer.
C15_UserPostsVisibility ==
  \A s \in Listed("getUserPosts") :
    LET l == req[s].list
    IN  /\ \A k \in 1..Len(l.ids) : l.ids[k] \in VisibleOf(l.target, req[s].user)
        /\ l.total = Cardinality(VisibleOf(l.target, req[s].user))

\* C15 witness: ann is shown a draft of her own in the listing of her posts.
C15_Witness ==
  \E s \in Listed("getUserPosts") :
    /\ req[s].user = "ann" /\ req[s].list.target = "ann"
    /\ \E k \in 1..Len(req[s].list.ids) : posts[req[s].list.ids[k]].status = "draft"

\* ---------------------------------------------------------------- C16
\* C16: a getUserPosts request that carries no authenticated identity, for a
\* user that exists, reaches the handler and is answered 200 with the
\* published posts of that user.
C16_UserPostsPublic ==
  \A s \in Slots :
    (/\ req[s].op = "getUserPosts" /\ req[s].pc = "done"
     /\ req[s].user = Anon /\ findUserById(req[s].list.target))
    => /\ req[s].status = 200
       /\ req[s].list.total = Cardinality(VisibleOf(req[s].list.target, Anon))

\* ---------------------------------------------------------------- C17
\* The published posts that meet the category, tags, search and author
\* parameters of q.
PublishedMatching(q) ==
  {i \in DOMAIN posts :
     /\ posts[i] # NoPost
     /\ posts[i].status = "published"
     /\ (q.category = NoParam \/ posts[i].category = q.category)
     /\ (q.tags = << >> \/ \E k \in 1..Len(q.tags) : q.tags[k] \in posts[i].tags)
     /\ (q.search = NoParam \/ q.search \in posts[i].words)
     /\ (q.author = NoParam \/ posts[i].author = q.author)}

\* C17: whoever sends a getPosts and whatever its category, tags, search,
\* author and sort parameters are, every post of the page is published (and
\* meets the parameters), no post is in the page twice, and total counts the
\* published posts that meet the parameters and no other post.
C17_ListOnlyPublished ==
  \A s \in Listed("getPosts") :
    LET l == req[s].list
    IN  /\ \A k \in 1..Len(l.ids) : l.ids[k] \in PublishedMatching(l.q)
        /\ \A j, k \in 1..Len(l.ids) : l.ids[j] = l.ids[k] => j = k
        /\ l.total = Cardinality(PublishedMatching(l.q))

\* C17 witness: ann lists the posts of author ann, of which one is a draft
\* and one is published, and is shown the published one only.
C17_Witness ==
  \E s \in Listed("getPosts") :
    /\ req[s].user = "ann" /\ req[s].list.q.author = "ann"
    /\ \E i \in DOMAIN posts : posts[i].status = "draft" /\ posts[i].author = "ann"
    /\ req[s].list.total = 1 /\ req[s].list.count = 1

\* ---------------------------------------------------------------- C18
\* C18: the document a createPost answered 201 has stored carries the sender
\* of the request as its author, whatever the payload, a payload with an
\* author field that names another user included.
C18_Step ==
  \A s \in Slots :
    (Arrives(s, "createPost") /\ req'[s].status = 201)
      => /\ posts[req'[s].id] = NoPost
         /\ posts'[req'[s].id] # NoPost
         /\ posts'[req'[s].id].author = req'[s].user

C18_AuthorIsRequester == [][C18_Step]_vars

\* C18 witness: ann has sent a payload whose author field names bob, and the
\* post it created is ann's.
C18_Witness ==
  \E s \in Slots :
    /\ req[s].op = "createPost" /\ req[s].status = 201
    /\ req[s].user = "ann"
    /\ "author" \in req[s].body.fields /\ req[s].body.author = "bob"
    /\ Exists(req[s].id) /\ posts[req[s].id].author = "ann"

\* ---------------------------------------------------------------- C19
\* What likePost, addComment and deleteComment do on arrival when the post is
\* stored, stated without its status: likePost goes on to its save;
\* addComment does so unless the text is missing (400); deleteComment does so
\* for the author of the comment and for an admin.
C19_Arrival ==
  \A s \in Slots :
    /\ (Arrives(s, "likePost") /\ Exists(req'[s].id)) => req'[s].pc = "save"
    /\ (Arrives(s, "addComment") /\ Exists(req'[s].id))
         => req'[s].pc = "save" \/ (req'[s].status = 400 /\ req'[s].text = << >>)
    /\ (Arrives(s, "deleteComment") /\ Exists(req'[s].id)
          /\ \E i \in 1..Len(posts[req'[s].id].comments) :
               /\ posts[req'[s].id].comments[i].id = req'[s].cid
               /\ (posts[req'[s].id].comments[i].user = req'[s].user
                     \/ Role(req'[s].user) = "admin"))
         => req'[s].pc = "save"

\* What their saves do when the post is still stored, stated without its
\* status: the like is toggled and answered 200 (unless the version of the
\* document moved under an unlike), the comment with a text is stored and
\* answered 201, the comment is removed and answered 200; the status of the
\* post stays what it was.
C19_Answer ==
  \A s \in Slots :
    LET r == req[s]
    IN  /\ (Settles(s, "likePost") /\ Exists(r.id) /\ ~VersionConflict(posts[r.id], r))
             => /\ req'[s].status = 200
                /\ req'[s].isLiked = ~r.wasLiked
                /\ (r.user \in Range(posts'[r.id].likes)) = ~r.wasLiked
                /\ posts'[r.id].status = posts[r.id].status
        /\ (Settles(s, "addComment") /\ Exists(r.id) /\ r.text # << >>)
             => /\ req'[s].status = 201
                /\ \E i \in 1..Len(posts'[r.id].comments) :
                     posts'[r.id].comments[i] = Comment(r.cid, r.user, r.text)
                /\ posts'[r.id].status = posts[r.id].status
        /\ (Settles(s, "deleteComment") /\ Exists(r.id))
             => /\ req'[s].status = 200
                /\ \A i \in 1..Len(posts'[r.id].comments) :
                     posts'[r.id].comments[i].id # r.cid
                /\ posts'[r.id].status = posts[r.id].status

\* C19: likePost, addComment and deleteComment never look at the status of the
\* post: on a stored post, draft and archived included, and for every
\* authenticated user, also one to whom getPost answers 404 for that post,
\* they go through and answer as they do on a published post.
C19_StatusDoesNotGateEngagement == [][C19_Arrival /\ C19_Answer]_vars

\* C19 witness: bob, to whom getPost has answered 404 for ann's unpublished
\* post, has liked it and has had a comment on it stored.
C19_Witness ==
  \E s, t \in Slots, id \in PostIds :
    /\ Exists(id) /\ posts[id].status # "published" /\ posts[id].author = "ann"
    /\ req[s].op = "getPost" /\ req[s].user = "bob" /\ req[s].id = id
    /\ req[s].status = 404
    /\ posts[id].likes = <<"bob">>
    /\ req[t].op = "addComment" /\ req[t].user = "bob" /\ req[t].id = id
    /\ req[t].status = 201
    /\ \E i \in 1..Len(posts[id].comments) : posts[id].comments[i].user = "bob"

\* ---------------------------------------------------------------- C20
\* C20: no step changes the slug of a post that stays stored, the write of an
\* updatePost whose payload carries a slug or a title included.
C20_SlugImmutable ==
  [][\A id \in PostIds :
       (posts[id] # NoPost /\ posts'[id] # NoPost)
         => posts'[id].slug = posts[id].slug]_vars

\* ---------------------------------------------------------------- C21
\* The step is the save of a deleteComment of comment c, sent by the author of
\* c or by an admin and answered 200.
C21_DeletedBy(c, id) ==
  \E s \in Slots :
    /\ Settles(s, "deleteComment") /\ req'[s].status = 200
    /\ req[s].id = id /\ req[s].cid = c.id
    /\ (req[s].user = c.user \/ Role(req[s].user) = "admin")

\* C21: in every step, each comment of a post that stays stored is still a
\* comment of the post afterwards, unchanged, unless the step is the
\* successful deleteComment of that comment by its author or an admin; an
\* updatePost, whatever its payload, removes none.
C21_CommentsAppendOnly ==
  [][\A id \in PostIds :
       (posts[id] # NoPost /\ posts'[id] # NoPost)
         => \A i \in 1..Len(posts[id].comments) :
              \/ HasComment(posts'[id].comments, posts[id].comments[i])
              \/ C21_DeletedBy(posts[id].comments[i], id)]_vars

\* ---------------------------------------------------------------- C22
\* C22: when the save of a likePost has completed and the request is answered
\* 200, isLiked says whether the requester is in the stored likes of the post
\* and likesCount is the number of the stored likes, also when likePost
\* requests of other users on the same post are in flight.
C22_LikeResponseIsStoredState ==
  [][\A s \in Slots :
       (Settles(s, "likePost") /\ req'[s].status = 200)
         => /\ req'[s].isLiked = (req[s].user \in Range(posts'[req[s].id].likes))
            /\ req'[s].likesCount = Len(posts'[req[s].id].likes)]_vars

\* ---------------------------------------------------------------- C23
ClientErrors == {400, 403, 404}

Guarded ==
  {"getPost", "getPostBySlug", "updatePost", "deletePost", "likePost",
   "addComment", "deleteComment"}

\* The step in which the request of slot s is answered, at its arrival or
\* after the write it awaited.
Answered(s) ==
  /\ \E op \in Guarded : Arrives(s, op) \/ Settles(s, op)
  /\ req'[s].pc = "done"

\* C23: the step in which a getPost, getPostBySlug, updatePost, deletePost,
\* likePost, addComment or deleteComment is answered 400, 403 or 404 changes
\* no field of any post; a read refused by the visibility test has not
\* counted a view.
C23_ErrorLeavesStore ==
  [][\A s \in Slots :
       (Answered(s) /\ req'[s].status \in ClientErrors) => posts' = posts]_vars

\* C23 witness: a getPost of ann's unpublished post has been answered 404 and
\* bob's updatePost of it 403, and the post has no view and is still ann's.
C23_Witness ==
  \E s, t \in Slots, id \in PostIds :
    /\ Exists(id) /\ posts[id].status # "published"
    /\ posts[id].author = "ann" /\ posts[id].views = 0
    /\ req[s].op = "getPost" /\ req[s].id = id /\ req[s].status = 404
    /\ req[t].op = "updatePost" /\ req[t].id = id /\ req[t].user = "bob"
    /\ req[t].status = 403

\* ---------------------------------------------------------------- C24
\* The fields of a post the handlers answer with (the version key __v, which
\* every save of an array moves, is bookkeeping of the store and is left out).
PostFields ==
  {"title", "content", "status", "author", "slug", "views", "likes", "comments"}

\* The step changes, of the post id, at most the fields named, and it changes
\* no other post.
ChangesOnly(id, fields) ==
  /\ posts'[id] # NoPost
  /\ \A f \in PostFields \ fields : posts'[id][f] = posts[id][f]
  /\ \A j \in PostIds \ {id} : posts'[j] = posts[j]

\* The save of the request in slot s, of handler op, is answered with code.
Succeeds(s, op, code) == Settles(s, op) /\ req'[s].status = code

C25_Arrival(s) ==
  LET r == req'[s]
      post == findById(r.id)
      stranger == r.user # post.author /\ Role(r.user) # "admin"
  IN  Arrives(s, "updatePost")
      => /\ posts' = posts
         /\ IF post = NoPost THEN r.pc = "done" /\ r.status = 404
            ELSE IF stranger THEN r.pc = "done" /\ r.status = 403
            ELSE IF ~postValidation(r.body) THEN r.pc = "done" /\ r.status = 400
            ELSE r.pc = "save"

\* C25: updatePost tests existence, then authorization, then the payload: a
\* missing post is answered 404 for every requester and payload, a requester
\* who is neither author nor admin 403 also with an invalid payload, and 400
\* is answered to the author or an admin only, whose invalid payload is the
\* one reason left for which nothing is written.
C25_UpdateCheckOrder == [][\A s \in Slots : C25_Arrival(s)]_vars

\* C25 witness: on ann's post, bob's updatePost with an invalid payload has
\* been answered 403 and ann's with an invalid payload 400.
C25_Witness ==
  \E s, t \in Slots, id \in PostIds :
    /\ Exists(id) /\ posts[id].author = "ann"
    /\ req[s].op = "updatePost" /\ req[s].id = id /\ req[s].user = "bob"
    /\ ~postValidation(req[s].body) /\ req[s].status = 403
    /\ req[t].op = "updatePost" /\ req[t].id = id /\ req[t].user = "ann"
    /\ ~postValidation(req[t].body) /\ req[t].status = 400

\* ---------------------------------------------------------------- C26
\* C26: when a deleteUser sent by an admin for another user is answered 200,
\* the user is gone and no stored post has that user as its author, also when
\* a createPost of that user has run between Post.deleteMany and
\* User.findByIdAndDelete; an admin's deleteUser of their own account is
\* answered 400 and deletes neither the user nor a post.
C26_DeleteUserCascades ==
  [][\A s \in Slots :
       /\ (Settles(s, "deleteUser") /\ req'[s].status = 200)
            => /\ req[s].target \notin users'
               /\ \A i \in PostIds :
                    posts'[i] # NoPost => posts'[i].author # req[s].target
       /\ (Arrives(s, "deleteUser") /\ admin(req'[s].user)
             /\ req'[s].target = req'[s].user)
            => /\ req'[s].pc = "done" /\ req'[s].status = 400
               /\ posts' = posts /\ users' = users]_vars
====
